---- MODULE Spec2Model ----
(***************************************************************************)
(* Model of the test-utils stream doubles:                                 *)
(*   RepeatReader (src/src/streams/repeatreader.rs) and                    *)
(*   VoidWriter   (src/src/streams/voidwriter.rs).                         *)
(*                                                                         *)
(* RepeatReader::read is modelled statement by statement: the call         *)
(* computes ln and issues the first source read (lines 88-94), every       *)
(* iteration of the while loop is one step (lines 95-98) and the return    *)
(* is one step (lines 100-102).  The wrapped source S is either the        *)
(* std::io::Cursor the convenience constructors build, or a generic        *)
(* Read + Seek value whose calls may fail or return short reads.           *)
(***************************************************************************)
EXTENDS Integers, Sequences, FiniteSets, TLC

\* ---------------------------------------------------------------- bounds
MaxContent == 3     \* longest source content
MaxSize == 5        \* largest total size given to the constructor
MaxBuf == 4         \* longest destination buffer handed to read
MaxCalls == 3       \* most VoidWriter::write calls in one run

Bytes == {1, 2}                 \* byte values a content may hold
Untouched == 0                  \* marks a destination byte no read has written
WriteLens == {0, 1, 10, 100}    \* lengths of the slices given to write

Min(a, b) == IF a < b THEN a ELSE b

Contents == UNION {[1..m -> Bytes] : m \in 0..MaxContent}

Kinds == {"cursor", "faulty", "short"}

VARIABLES
    \* RepeatReader<S>
    size,       \* field size
    contents,   \* the bytes held by the source S
    pos,        \* the source's cursor position
    read,       \* field read
    kind,       \* what S is: "cursor" (std::io::Cursor over a slice),
                \* "faulty" (its read and seek may fail), "short" (its read
                \* may return fewer bytes than are available)
    \* one call of RepeatReader::read
    pc,         \* "idle" between calls, "loop" at the while test of line 95
    buf,        \* the caller's destination buffer
    ln,         \* local ln
    nread,      \* local read
    pre,        \* the reader's read and pos when the current call began
    ret,        \* what the last call returned
    fault,      \* the error the source raised during the last call, or "none"
    sought,     \* the last call issued a seek on the source
    \* the caller's view
    out,        \* bytes received from successful reads since construction/reset
    epoch,      \* "new" after construction, "reset" after a successful reset
    clean,      \* no call has failed since construction / the last reset
    prevOut,    \* out of the previous reset-to-exhaustion run
    havePrev,   \* the previous epoch was started by reset and ended exhausted
    \* VoidWriter
    wrote,      \* field wrote
    calls,      \* field calls
    wret,       \* what the last VoidWriter call returned
    lens,       \* the lengths of the slices written so far
    text        \* the last rendering produced by Display::fmt

rvars == <<size, contents, pos, read, kind, pc, buf, ln, nread, pre, ret, fault,
           sought,
           out, epoch, clean, prevOut, havePrev>>
wvars == <<wrote, calls, wret, lens, text>>
vars == <<rvars, wvars>>

NoRet == [op |-> "none", ok |-> TRUE, n |-> 0, err |-> "none"]
Ok(o, k) == [op |-> o, ok |-> TRUE, n |-> k, err |-> "none"]
Err(o, e) == [op |-> o, ok |-> FALSE, n |-> 0, err |-> e]

\* ---------------------------------------------------------- RepeatReader

\* RepeatReader::new: the fields of a reader over a source at position p.
new(sz, c, p) == [size |-> sz, contents |-> c, pos |-> p, read |-> 0]

\* RepeatReader::from_slice / from_str: Cursor::new starts at position 0.
from_slice(sz, c) == new(sz, c, 0)

\* The reader's fields as one value.
Reader == [size |-> size, contents |-> contents, pos |-> pos, read |-> read]

\* Mutant of left: the bytes handed out are not subtracted.
left_total == size

\* RepeatReader::left
left == size - read

\* Mutant of ln_of: the destination length is not clamped to left().
ln_noclamp(L) == L

\* Mutant of ln_of: the clamp is off by one.
ln_off_by_one(L) == IF L > left + 1 THEN left + 1 ELSE L

\* lines 88-92: ln = min(buf.len(), self.left())
ln_of(L) == IF L > left THEN left ELSE L

\* Bytes the source holds after position p (what Cursor::read can copy).
avail(p) == Len(contents) - Min(p, Len(contents))

\* The byte counts a source read at position p into a slice of `want` bytes
\* may return: all it can copy, or, from a "short" source, any part of it.
SrcReadLens(p, want) ==
    IF kind = "short" /\ Min(want, avail(p)) > 0
    THEN 1..Min(want, avail(p))
    ELSE {Min(want, avail(p))}

\* The destination b after a source read at position p copied k bytes to
\* b[from ..].
Fill(b, from, p, k) ==
    [i \in 1..Len(b) |->
        IF i > from /\ i <= from + k THEN contents[p + (i - from)] ELSE b[i]]

\* line 94: the slice &mut buf[..ln] of the first source read.
first_dst(l) == [from |-> 0, want |-> l]

\* Mutant of loop_dst: the loop reads into &mut buf[..ln] again.
loop_dst_restart(r, l) == [from |-> 0, want |-> l]

\* line 97: the slice &mut buf[read..ln] of a source read in the loop.
loop_dst(r, l) == [from |-> r, want |-> l - r]

\* Mutant of rewind: the seek is left out, the source stays where it is.
rewind_stay(p) == p

\* Mutant of rewind: the seek goes to SeekFrom::Start(1).
rewind_to_one(p) == 1

\* line 96: the position seek(SeekFrom::Start(0)) leaves the source at.
rewind(p) == 0

\* What no RepeatReader method changes: its size, the bytes of its source,
\* and the VoidWriter.
ReaderUnchanged == UNCHANGED <<size, contents, kind, wvars>>
EpochUnchanged == UNCHANGED <<out, epoch, prevOut, havePrev>>

\* read(buf), lines 88-94, the first source read succeeds.
read_call_ok ==
    /\ pc = "idle"
    /\ \E L \in 0..MaxBuf :
        LET l == ln_of(L)
            d == first_dst(l)
        IN \E k \in SrcReadLens(pos, d.want) :
            /\ ln' = l
            /\ buf' = Fill([i \in 1..L |-> Untouched], d.from, pos, k)
            /\ pos' = pos + k
            /\ nread' = k
    /\ pre' = [read |-> read, pos |-> pos]
    /\ pc' = "loop"
    /\ ret' = NoRet
    /\ fault' = "none"
    /\ sought' = FALSE
    /\ UNCHANGED <<read, clean>>
    /\ ReaderUnchanged /\ EpochUnchanged

\* read(buf), lines 88-94, the first source read fails: `?` returns the error.
read_call_err ==
    /\ pc = "idle"
    /\ kind = "faulty"
    /\ \E L \in 0..MaxBuf :
        /\ ln' = ln_of(L)
        /\ buf' = [i \in 1..L |-> Untouched]
    /\ nread' = 0
    /\ pre' = [read |-> read, pos |-> pos]
    /\ fault' = "read"
    /\ ret' = Err("read", fault')
    /\ clean' = FALSE
    /\ sought' = FALSE
    /\ UNCHANGED <<pc, pos, read>>
    /\ ReaderUnchanged /\ EpochUnchanged

\* lines 95-98, one iteration whose seek and read both succeed.
read_loop_ok ==
    /\ pc = "loop"
    /\ nread < ln
    /\ LET d == loop_dst(nread, ln)
           p == rewind(pos)
       IN \E k \in SrcReadLens(p, d.want) :
            /\ buf' = Fill(buf, d.from, p, k)
            /\ pos' = p + k
            /\ nread' = nread + k
    /\ sought' = TRUE
    /\ UNCHANGED <<pc, ln, read, pre, ret, fault, clean>>
    /\ ReaderUnchanged /\ EpochUnchanged

\* line 96, the seek fails: `?` returns the error.
read_loop_seek_err ==
    /\ pc = "loop"
    /\ nread < ln
    /\ kind = "faulty"
    /\ pc' = "idle"
    /\ fault' = "seek"
    /\ ret' = Err("read", fault')
    /\ clean' = FALSE
    /\ sought' = TRUE
    /\ UNCHANGED <<pos, read, buf, ln, nread, pre>>
    /\ ReaderUnchanged /\ EpochUnchanged

\* Mutant of read_loop_read_err: the bytes collected so far are counted
\* before the error is returned.
read_loop_read_err_commit ==
    /\ pc = "loop"
    /\ nread < ln
    /\ kind = "faulty"
    /\ pos' = rewind(pos)
    /\ pc' = "idle"
    /\ fault' = "read"
    /\ ret' = Err("read", fault')
    /\ clean' = FALSE
    /\ read' = read + nread
    /\ sought' = TRUE
    /\ UNCHANGED <<buf, ln, nread, pre>>
    /\ ReaderUnchanged /\ EpochUnchanged

\* line 97, the seek succeeded and the read fails: `?` returns the error.
read_loop_read_err ==
    /\ pc = "loop"
    /\ nread < ln
    /\ kind = "faulty"
    /\ pos' = rewind(pos)
    /\ pc' = "idle"
    /\ fault' = "read"
    /\ ret' = Err("read", fault')
    /\ clean' = FALSE
    /\ sought' = TRUE
    /\ UNCHANGED <<read, buf, ln, nread, pre>>
    /\ ReaderUnchanged /\ EpochUnchanged

\* Mutant of read_return: self.read += buf.len()
read_return_buflen ==
    /\ pc = "loop"
    /\ ~(nread < ln)
    /\ read' = read + Len(buf)
    /\ ret' = Ok("read", ln)
    /\ out' = out \o SubSeq(buf, 1, ln)
    /\ pc' = "idle"
    /\ UNCHANGED <<pos, buf, ln, nread, pre, fault, sought, clean, epoch, prevOut, havePrev>>
    /\ ReaderUnchanged

\* lines 100-102: self.read += ln; Ok(ln)
read_return ==
    /\ pc = "loop"
    /\ ~(nread < ln)
    /\ read' = read + ln
    /\ ret' = Ok("read", ln)
    /\ out' = out \o SubSeq(buf, 1, ln)
    /\ pc' = "idle"
    /\ UNCHANGED <<pos, buf, ln, nread, pre, fault, sought, clean, epoch, prevOut, havePrev>>
    /\ ReaderUnchanged

\* Mutant of reset_ok: the source is not sought back to its start.
reset_noseek ==
    /\ pc = "idle"
    /\ pos' = pos
    /\ read' = 0
    /\ ret' = Ok("reset", 0)
    /\ fault' = "none"
    /\ pre' = [read |-> read, pos |-> pos]
    /\ havePrev' = (epoch = "reset" /\ clean /\ read = size)
    /\ prevOut' = IF epoch = "reset" /\ clean /\ read = size THEN out ELSE <<>>
    /\ out' = <<>>
    /\ epoch' = "reset"
    /\ clean' = TRUE
    /\ sought' = TRUE
    /\ UNCHANGED <<pc, buf, ln, nread>>
    /\ ReaderUnchanged

\* Mutant of reset_ok: self.read is not set back to 0.
reset_keepread ==
    /\ pc = "idle"
    /\ pos' = rewind(pos)
    /\ read' = read
    /\ ret' = Ok("reset", 0)
    /\ fault' = "none"
    /\ pre' = [read |-> read, pos |-> pos]
    /\ havePrev' = (epoch = "reset" /\ clean /\ read = size)
    /\ prevOut' = IF epoch = "reset" /\ clean /\ read = size THEN out ELSE <<>>
    /\ out' = <<>>
    /\ epoch' = "reset"
    /\ clean' = TRUE
    /\ sought' = TRUE
    /\ UNCHANGED <<pc, buf, ln, nread>>
    /\ ReaderUnchanged

\* reset(), lines 76-80, the seek succeeds.
reset_ok ==
    /\ pc = "idle"
    /\ pos' = rewind(pos)
    /\ read' = 0
    /\ ret' = Ok("reset", 0)
    /\ fault' = "none"
    /\ pre' = [read |-> read, pos |-> pos]
    /\ havePrev' = (epoch = "reset" /\ clean /\ read = size)
    /\ prevOut' = IF epoch = "reset" /\ clean /\ read = size THEN out ELSE <<>>
    /\ out' = <<>>
    /\ epoch' = "reset"
    /\ clean' = TRUE
    /\ sought' = TRUE
    /\ UNCHANGED <<pc, buf, ln, nread>>
    /\ ReaderUnchanged

\* Mutant of reset_err: self.read is set to 0 before the seek is tried.
reset_err_zeroed ==
    /\ pc = "idle"
    /\ kind = "faulty"
    /\ fault' = "seek"
    /\ ret' = Err("reset", fault')
    /\ pre' = [read |-> read, pos |-> pos]
    /\ clean' = FALSE
    /\ sought' = TRUE
    /\ read' = 0
    /\ UNCHANGED <<pos, pc, buf, ln, nread>>
    /\ ReaderUnchanged /\ EpochUnchanged

\* reset(), line 77, the seek fails: `?` returns the error before line 78.
reset_err ==
    /\ pc = "idle"
    /\ kind = "faulty"
    /\ fault' = "seek"
    /\ ret' = Err("reset", fault')
    /\ pre' = [read |-> read, pos |-> pos]
    /\ clean' = FALSE
    /\ sought' = TRUE
    /\ UNCHANGED <<pos, read, pc, buf, ln, nread>>
    /\ ReaderUnchanged /\ EpochUnchanged

ReaderInit ==
    /\ size \in 0..MaxSize
    /\ contents \in Contents
    /\ kind \in Kinds
    /\ \E p \in 0..Len(contents) :
        /\ kind = "cursor" => p = from_slice(size, contents).pos
        /\ pos = new(size, contents, p).pos
        /\ read = new(size, contents, p).read
    /\ pc = "idle"
    /\ buf = <<>>
    /\ ln = 0
    /\ nread = 0
    /\ pre = [read |-> 0, pos |-> pos]
    /\ ret = NoRet
    /\ fault = "none"
    /\ sought = FALSE
    /\ out = <<>>
    /\ epoch = "new"
    /\ clean = TRUE
    /\ prevOut = <<>>
    /\ havePrev = FALSE

ReaderNext ==
    \/ read_call_ok
    \/ read_call_err
    \/ read_loop_ok
    \/ read_loop_seek_err
    \/ read_loop_read_err
    \/ read_return
    \/ reset_ok
    \/ reset_err

\* ------------------------------------------------------------ VoidWriter

Digit(d) == <<"0", "1", "2", "3", "4", "5", "6", "7", "8", "9">>[d + 1]

\* The decimal digits `{}` formats a usize as.
RECURSIVE Dec(_)
Dec(n) == IF n < 10 THEN <<Digit(n)>> ELSE Dec(n \div 10) \o <<Digit(n % 10)>>

\* line 57: writeln!(f, "Wrote {} bytes in {} calls", self.wrote, self.calls);
\* writeln! ends the formatted text with a newline.
Rendering(w, c) ==
    <<"W", "r", "o", "t", "e", " ">> \o Dec(w)
        \o <<" ", "b", "y", "t", "e", "s", " ", "i", "n", " ">> \o Dec(c)
        \o <<" ", "c", "a", "l", "l", "s">> \o <<"\n">>

\* VoidWriter::new: Self::default() zeroes both counters.
WriterInit ==
    /\ wrote = 0
    /\ calls = 0
    /\ wret = NoRet
    /\ lens = <<>>
    /\ text = <<>>

\* Mutant of write: an empty slice returns early and is not counted as a call.
write_skip_empty ==
    /\ calls < MaxCalls
    /\ \E L \in WriteLens :
        /\ wrote' = wrote + L
        /\ calls' = IF L = 0 THEN calls ELSE calls + 1
        /\ wret' = Ok("write", L)
        /\ lens' = Append(lens, L)
    /\ UNCHANGED text
    /\ UNCHANGED rvars

\* io::Write::write, lines 44-48.
write ==
    /\ calls < MaxCalls
    /\ \E L \in WriteLens :
        /\ wrote' = wrote + L
        /\ calls' = calls + 1
        /\ wret' = Ok("write", L)
        /\ lens' = Append(lens, L)
    /\ UNCHANGED text
    /\ UNCHANGED rvars

\* Mutant of flush: flushing starts the counters over.
flush_clears ==
    /\ wret' = Ok("flush", 0)
    /\ wrote' = 0
    /\ calls' = 0
    /\ UNCHANGED <<lens, text>>
    /\ UNCHANGED rvars

\* io::Write::flush, lines 50-52.
flush ==
    /\ wret' = Ok("flush", 0)
    /\ UNCHANGED <<wrote, calls, lens, text>>
    /\ UNCHANGED rvars

\* VoidWriter::wrote, lines 32-34 (the accessor; the field has the same name).
wrote_get ==
    /\ wret' = Ok("wrote", wrote)
    /\ UNCHANGED <<wrote, calls, lens, text>>
    /\ UNCHANGED rvars

\* VoidWriter::calls, lines 38-40.
calls_get ==
    /\ wret' = Ok("calls", calls)
    /\ UNCHANGED <<wrote, calls, lens, text>>
    /\ UNCHANGED rvars

\* fmt::Display::fmt, lines 56-58.
fmt ==
    /\ text' = Rendering(wrote, calls)
    /\ wret' = Ok("fmt", 0)
    /\ UNCHANGED <<wrote, calls, lens>>
    /\ UNCHANGED rvars

WriterNext ==
    \/ write
    \/ flush
    \/ wrote_get
    \/ calls_get
    \/ fmt

\* -------------------------------------------------------- specifications

\* A RepeatReader under test; the VoidWriter is not used.
Init == ReaderInit /\ WriterInit

Next == ReaderNext

Spec == Init /\ [][Next]_vars

\* A read call that has begun runs on: the loop takes its next iteration (or
\* returns the source's error) and the call returns once the loop is left.
\* Nothing obliges the caller to begin a call.
FairSpec ==
    /\ Spec
    /\ WF_vars(read_loop_ok \/ read_loop_seek_err \/ read_loop_read_err)
    /\ WF_vars(read_return)

\* The reader WriterSpec leaves alone: RepeatReader::from_slice(0, "").
ReaderUnused ==
    /\ ReaderInit
    /\ size = 0
    /\ contents = <<>>
    /\ kind = "cursor"

\* A VoidWriter under test; the RepeatReader is not used.
WriterSpecInit == ReaderUnused /\ WriterInit

WriterSpecNext == WriterNext

WriterSpec == WriterSpecInit /\ [][WriterSpecNext]_vars

\* ------------------------------------------------------------- properties

\* The first k bytes of the content repeated without end.
Repeated(k) == [i \in 1..k |-> contents[((i - 1) % Len(contents)) + 1]]

\* A read call has returned and no other call has begun.
ReadReturned == pc = "idle" /\ ret.op = "read"

\* C1: a reader freshly built over a non-empty in-memory content (cursor at
\* 0) has handed out, after any sequence of reads, the first `read` bytes of
\* the repeated content; a read into a non-empty buffer returns 0 only at
\* exhaustion, so reading to exhaustion yields exactly size bytes, byte i
\* being content[i mod m], however the reads are chunked.
C1_RepeatedAndTruncated ==
    (kind = "cursor" /\ epoch = "new" /\ Len(contents) > 0 /\ pc = "idle") =>
        /\ Len(out) = read
        /\ out = Repeated(read)
        /\ (ReadReturned /\ ret.ok /\ ret.n = 0 /\ Len(buf) > 0) => out = Repeated(size)

\* C1 witness: read to exhaustion in several chunks, the content wrapped
\* around at least once and cut inside a repetition.
C1_Witness ==
    /\ kind = "cursor" /\ epoch = "new" /\ pc = "idle"
    /\ Len(contents) > 1 /\ contents[1] # contents[2]
    /\ size > Len(contents) /\ size % Len(contents) # 0
    /\ read = size /\ out = Repeated(size)
    /\ ReadReturned /\ ret.ok /\ ret.n = 0 /\ Len(buf) > 0

\* C2: with size = 0 every read call, whatever the destination length and
\* the content (the empty one included), runs no loop iteration and returns
\* Ok(0) unless the source itself failed; nothing is ever handed out.
C2_ZeroSizeReadsNothing ==
    size = 0 =>
        /\ out = <<>>
        /\ pc = "loop" => (ln = 0 /\ ~(nread < ln))
        /\ ReadReturned => ((ret.ok => ret.n = 0) /\ (kind # "faulty" => ret.ok))

\* C2 witness: a read into a non-empty buffer over an empty content returned
\* Ok(0).
C2_Witness ==
    /\ size = 0 /\ ReadReturned /\ ret.ok /\ ret.n = 0
    /\ Len(buf) > 0 /\ contents = <<>>

\* C3: in every state, read <= size, so left() = size - read is not negative.
C3_ReadWithinSize == read <= size /\ left >= 0 /\ size - read >= 0

\* C3 witness: after a reset and further reads, among them a failed one, the
\* reader is exhausted.
C3_Witness ==
    /\ epoch = "reset" /\ ~clean /\ size > 0 /\ read = size /\ ReadReturned /\ ret.ok
    /\ ret.n > 0

\* C4: a successful read into a buffer of length L returns
\* n = min(L, left() before the call), has written exactly n bytes into the
\* buffer, and has increased read and decreased left() by exactly n.
C4_ReadTransfersMin ==
    (ReadReturned /\ ret.ok) =>
        /\ ret.n = Min(Len(buf), size - pre.read)
        /\ read = pre.read + ret.n
        /\ left = (size - pre.read) - ret.n
        /\ Cardinality({i \in 1..Len(buf) : buf[i] # Untouched}) = ret.n
        /\ nread = ret.n

\* C4 witness: a read clamped by left() (0 < left() < L) after earlier reads.
C4_Witness ==
    /\ ReadReturned /\ ret.ok
    /\ pre.read > 0 /\ ret.n > 0 /\ ret.n < Len(buf)

\* A reset call has returned Ok and no other call has begun.
ResetReturned == pc = "idle" /\ ret.op = "reset" /\ ret.ok

\* C5: a successful reset, from any state, leaves the source at position 0
\* and read = 0, so left() = size and the reader's fields are those of
\* from_slice(size, contents); from there on the bytes handed out are the
\* ones a new reader hands out: the first `read` bytes of the repeated
\* content, ending only at size.
C5_ResetIsFresh ==
    /\ ResetReturned =>
        /\ pos = 0 /\ read = 0 /\ left = size /\ out = <<>>
        /\ Reader = from_slice(size, contents)
    /\ (epoch = "reset" /\ clean /\ kind # "short" /\ Len(contents) > 0 /\ pc = "idle") =>
        /\ out = Repeated(read)
        /\ (ReadReturned /\ ret.ok /\ ret.n = 0 /\ Len(buf) > 0) => out = Repeated(size)

\* C5 witness: a reset called with the source cursor and read both past 0.
C5_Witness ==
    /\ ResetReturned
    /\ pre.read > 0 /\ pre.pos > 0 /\ pre.pos # pre.read
    /\ pos = 0 /\ read = 0

\* C6: of two consecutive runs "reset, then read to exhaustion" over a
\* source that delivers full reads, the second yields the byte sequence the
\* first yielded, whatever the state before the first reset and however the
\* reads of either run are chunked.
C6_ResetRunsAgree ==
    (epoch = "reset" /\ havePrev /\ clean /\ kind # "short" /\ pc = "idle" /\ read = size) =>
        out = prevOut

\* C6 witness: the second run has ended and both runs yielded the same
\* wrapped, non-constant sequence of size bytes.
C6_Witness ==
    /\ epoch = "reset" /\ havePrev /\ clean /\ pc = "idle" /\ read = size
    /\ size > Len(contents) /\ Len(contents) > 1 /\ contents[1] # contents[2]
    /\ out = prevOut /\ Len(out) = size

\* C7: read never decreases except by a successful reset; once read = size
\* it stays so until a successful reset, and every read call begun in that
\* state runs no loop iteration and, when it returns Ok, returns 0.
C7_ExhaustedUntilReset ==
    [][ /\ (read' < read) => (ResetReturned' /\ pc = "idle")
        /\ (read = size /\ ~ResetReturned') => read' = size
        /\ (pc' = "loop" /\ pre'.read = size) => (ln' = 0 /\ nread' = 0)
        /\ (ReadReturned' /\ ret'.ok /\ pre'.read = size) => (ret'.n = 0 /\ read' = size)
      ]_vars

\* C7 witness: a read into a non-empty buffer, begun when exhausted, returned
\* Ok(0) and left the reader exhausted.
C7_Witness ==
    /\ ReadReturned /\ ret.ok /\ ret.n = 0
    /\ size > 0 /\ pre.read = size /\ read = size /\ Len(buf) > 0

\* C8: a read call returns Err exactly when a read or seek of the source
\* failed during it; it returns that error, and read (hence left()) is what
\* it was when the call began, however many bytes the loop had collected.
C8_FailedReadKeepsCount ==
    /\ pc = "loop" => fault = "none"
    /\ ReadReturned =>
        /\ ret.ok <=> fault = "none"
        /\ ~ret.ok =>
            /\ ret.err = fault /\ fault \in {"read", "seek"}
            /\ read = pre.read
            /\ left = size - pre.read

\* C8 witness: a source call failed in the loop after bytes were collected,
\* in a reader that had handed out bytes before.
C8_Witness ==
    /\ ReadReturned /\ ~ret.ok
    /\ nread > 0 /\ nread < ln /\ pre.read > 0 /\ read = pre.read

RECURSIVE SumSeq(_)
SumSeq(q) == IF q = <<>> THEN 0 ELSE q[1] + SumSeq(Tail(q))

\* C9: every write of a slice of length L returns Ok(L), adds L to wrote and
\* 1 to calls, so after any sequence of writes to a new writer wrote() is
\* the sum of the lengths and calls() their number; lengths 0, 10, 100 give
\* wrote() = 110 and calls() = 3.
C9_WriteCounts ==
    /\ wrote = SumSeq(lens)
    /\ calls = Len(lens)
    /\ wret.ok
    /\ wret.op = "write" => wret.n = lens[Len(lens)]
    /\ wret.op = "wrote" => wret.n = SumSeq(lens)
    /\ wret.op = "calls" => wret.n = Len(lens)
    /\ lens = <<0, 10, 100>> => (wrote = 110 /\ calls = 3)

\* C9 witness: slices of lengths 0, 10 and 100 were written, in this order.
C9_Witness ==
    /\ lens = <<0, 10, 100>> /\ wret = Ok("write", 100)
    /\ wrote = 110 /\ calls = 3

\* C10 as claimed: the rendering is exactly "Wrote <wrote> bytes in <calls>
\* calls", with nothing before or after it.
C10_RenderingExact ==
    wret.op = "fmt" =>
        text = <<"W", "r", "o", "t", "e", " ">> \o Dec(wrote)
                 \o <<" ", "b", "y", "t", "e", "s", " ", "i", "n", " ">> \o Dec(calls)
                 \o <<" ", "c", "a", "l", "l", "s">>

\* C11: over any sequence of write, flush, wrote, calls and rendering
\* operations neither wrote nor calls ever decreases; flush, the two
\* accessors and the rendering leave both as they were, and flush returns Ok.
C11_CountersNeverDecrease ==
    [][ /\ wrote' >= wrote
        /\ calls' >= calls
        /\ wret'.op \in {"flush", "wrote", "calls", "fmt"} =>
                (wrote' = wrote /\ calls' = calls /\ wret'.ok)
        /\ wret'.op = "flush" => wret' = Ok("flush", 0)
      ]_vars

\* C11 witness: flush returned after bytes had been written, the counters
\* still holding them.
C11_Witness ==
    /\ wret.op = "flush" /\ wret.ok
    /\ wrote > 0 /\ calls > 1 /\ wrote = SumSeq(lens)

\* The byte the repeated content holds j bytes after source position p.
Cyclic(p, j) == contents[((p + j) % Len(contents)) + 1]

\* C12: in one read call over a non-empty source that delivers full reads,
\* the loop seeks to 0 only with the source at its end, and the call fills
\* all n = min(L, left()) first destination bytes, byte j (from 0) being
\* content[(p + j) mod m] for the source position p at the start of the
\* call, however many times the content is wrapped around (m = 1 included).
C12_WrapAroundFillsCyclic ==
    (kind # "short" /\ Len(contents) > 0) =>
        /\ (pc = "loop" /\ nread < ln) => pos = Len(contents)
        /\ pc = "loop" =>
                \A j \in 0..(nread - 1) : buf[j + 1] = Cyclic(pre.pos, j)
        /\ (ReadReturned /\ ret.ok) =>
            /\ ret.n = Min(Len(buf), size - pre.read)
            /\ \A j \in 0..(ret.n - 1) : buf[j + 1] = Cyclic(pre.pos, j)
            /\ \A i \in (ret.n + 1)..Len(buf) : buf[i] = Untouched

\* C12 witness: one call, begun in mid-content, wrapped a non-constant
\* content around twice.
C12_Witness ==
    /\ ReadReturned /\ ret.ok /\ kind = "cursor"
    /\ Len(contents) > 1 /\ contents[1] # contents[2]
    /\ pre.pos > 0 /\ pre.pos < Len(contents)
    /\ ret.n > Len(contents) /\ sought
    /\ pre.pos + ret.n > 2 * Len(contents)

\* The length n = min(L, left()) of the read call that is running or has
\* just returned, from the buffer length and read at the start of the call.
CallLen == Min(Len(buf), size - pre.read)

\* C13: a read call with n = min(L, left()) = 0 (an empty destination or an
\* exhausted reader) runs no loop iteration and issues no seek, leaves read,
\* the source position and the destination buffer as they were, and returns
\* Ok(0) unless the source's own (zero-length) read failed.
C13_ZeroLengthReadChangesNothing ==
    /\ (pc = "loop" /\ CallLen = 0) =>
        /\ ~(nread < ln) /\ ~sought
        /\ read = pre.read /\ pos = pre.pos
    /\ (ReadReturned /\ CallLen = 0) =>
        /\ ~sought
        /\ read = pre.read /\ pos = pre.pos /\ left = size - pre.read
        /\ \A i \in 1..Len(buf) : buf[i] = Untouched
        /\ ret.ok => ret.n = 0
        /\ kind # "faulty" => ret.ok

\* C13 witness: a read into a non-empty buffer by an exhausted reader whose
\* source rests in mid-content returned Ok(0).
C13_Witness ==
    /\ ReadReturned /\ ret.ok /\ ret.n = 0 /\ CallLen = 0
    /\ Len(buf) > 0 /\ size > 0 /\ pre.read = size
    /\ pre.pos > 0 /\ pre.pos < Len(contents) /\ pos = pre.pos

\* A read call is in its loop over an empty source with bytes still to fill.
Spinning == pc = "loop" /\ contents = <<>> /\ nread < ln

\* C14: a read call over a non-empty source always comes to return (with
\* Ok, or with the source's error); a read call with n > 0 over an empty
\* source enters the loop with nothing collected and never leaves it: every
\* iteration seeks to 0 and reads 0 bytes, and the call ends only if the
\* source itself fails, so over a source that does not fail it never returns.
C14_TerminatesUnlessEmpty ==
    /\ (pc = "loop" /\ Len(contents) > 0) ~> (pc = "idle")
    /\ []((pc = "loop" /\ contents = <<>> /\ CallLen > 0) => Spinning)
    /\ [][Spinning =>
            \/ Spinning' /\ pos' = 0 /\ nread' = 0 /\ ret' = NoRet /\ read' = read
            \/ kind = "faulty" /\ ReadReturned' /\ ~ret'.ok]_vars

\* C14 witness: a read call over an empty in-memory source, size > 0, has
\* gone through the loop and is in it still.
C14_Witness ==
    /\ Spinning /\ sought /\ kind = "cursor"
    /\ size > 0 /\ Len(buf) > 0 /\ nread = 0

\* C15 as claimed: after every successful reset the reader is active
\* (read < size), for every size.
C15_ResetMakesActive == ResetReturned => read < size

\* C15, amended: after every successful reset read = 0, whatever the state
\* before (exhausted or active); the reader is then active exactly when
\* size > 0, and with size = 0 it is exhausted, as a new reader is.
C15_ResetMakesInitial ==
    ResetReturned =>
        /\ read = 0
        /\ size > 0 => read < size
        /\ size = 0 => read = size

\* C15 witness: a successful reset took an exhausted reader, size > 0, back
\* to active.
C15_Witness ==
    /\ ResetReturned /\ size > 0
    /\ pre.read = size /\ read < size

\* C16 as claimed: a read call that fails part-way leaves read and the
\* source where they were when the call began, so the successful reads
\* after it go on handing out the repeated content at offset read mod m:
\* after a reset, whatever calls failed since, the bytes handed out are the
\* first `read` bytes of the repeated content.
C16_FailedReadKeepsSource ==
    (kind = "faulty" /\ epoch = "reset" /\ Len(contents) > 0 /\ pc = "idle") =>
        /\ (ReadReturned /\ ~ret.ok) => read = pre.read
        /\ out = Repeated(read)

\* C17 as claimed: over a source that may return short, non-zero reads
\* before its end, a read call still delivers the content in cyclic order,
\* none skipped and none repeated: the bytes collected so far, and the n
\* bytes of a call that returned Ok, are content[(p + j) mod m] for the
\* source position p at the start of the call.
C17_ShortReadsStayCyclic ==
    (kind = "short" /\ Len(contents) > 0) =>
        /\ (pc = "loop" /\ sought) =>
                \A j \in 0..(nread - 1) : buf[j + 1] = Cyclic(pre.pos, j)
        /\ (ReadReturned /\ ret.ok) =>
                \A j \in 0..(ret.n - 1) : buf[j + 1] = Cyclic(pre.pos, j)

\* C18: for a reader built over a non-empty in-memory slice or string, in
\* every state between calls the source position p satisfies 0 <= p <= m
\* and p mod m = read mod m: the cursor stays in phase with the bytes handed
\* out, resting at m (not 0) after a read that ends on the content boundary.
C18_CursorInPhase ==
    (kind = "cursor" /\ Len(contents) > 0 /\ pc = "idle") =>
        /\ 0 <= pos /\ pos <= Len(contents)
        /\ pos % Len(contents) = read % Len(contents)
        /\ (ReadReturned /\ ret.n > 0 /\ read % Len(contents) = 0) => pos = Len(contents)

\* C18 witness: after a reset, a read that wrapped the content around ended
\* exactly on the content boundary, with bytes still left; the cursor rests
\* at m.
C18_Witness ==
    /\ kind = "cursor" /\ epoch = "reset" /\ ReadReturned /\ ret.ok /\ ret.n > 0
    /\ Len(contents) > 1 /\ sought
    /\ read > Len(contents) /\ read % Len(contents) = 0 /\ read < size
    /\ pos = Len(contents)

\* A reset call has returned Err and no other call has begun.
ResetFailed == pc = "idle" /\ ret.op = "reset" /\ ~ret.ok

\* C19: a reset whose seek fails returns that error and leaves read, hence
\* left(), as it was before the call (and the source where it was).
C19_FailedResetKeepsCount ==
    /\ (pc = "idle" /\ ret.op = "reset") => (ret.ok <=> fault = "none")
    /\ ResetFailed =>
        /\ ret.err = fault /\ fault = "seek"
        /\ read = pre.read
        /\ left = size - pre.read
        /\ pos = pre.pos

\* C19 witness: a reset failed in a reader that had handed out some, not
\* all, of its bytes.
C19_Witness ==
    /\ ResetFailed
    /\ pre.read > 0 /\ read = pre.read /\ left > 0 /\ left < size

====
